---- MODULE Spec2Model ----
(***************************************************************************)
(* A model of logie (src/logie.go): a leveled logger whose calls take a    *)
(* pooled Entry, gate it by severity, render it with a Formatter, write it *)
(* to the destination under the logger mutex and recycle it; and of the    *)
(* Level text codec.                                                       *)
(*                                                                         *)
(* Text is a sequence of one-character (or one-token) strings.  Bytes in a *)
(* buffer are a sequence of tokens, see Lit, JObj and JVal.                *)
(***************************************************************************)
EXTENDS Integers, Sequences, FiniteSets, TLC

(***************************************************************************)
(* Bounds of the model.                                                    *)
(***************************************************************************)
\* goroutines that call into the one Logger
NThreads == 2
\* log calls started in one run, over all goroutines
MaxCalls == 3
\* SetOptions calls started in one run
MaxSetOptions == 1
\* options in one option list of New or SetOptions
MaxOpts == 2

(***************************************************************************)
(* Level, logie.go:33-51.                                                  *)
(***************************************************************************)
TraceLevel == 0
DebugLevel == 1
InfoLevel == 2
WarnLevel == 3
ErrorLevel == 4
PanicLevel == 5
FatalLevel == 6

Levels == TraceLevel..FatalLevel

LevelMapping ==
  [l \in Levels |->
     CASE l = TraceLevel -> <<"T", "r", "a", "c", "e">>
       [] l = DebugLevel -> <<"D", "e", "b", "u", "g">>
       [] l = InfoLevel  -> <<"I", "n", "f", "o">>
       [] l = WarnLevel  -> <<"W", "a", "r", "n">>
       [] l = ErrorLevel -> <<"E", "r", "r", "o", "r">>
       [] l = PanicLevel -> <<"P", "a", "n", "i", "c">>
       [] l = FatalLevel -> <<"F", "a", "t", "a", "l">>]

FmtEmptySeparate == <<>>

(***************************************************************************)
(* Sequence helpers.                                                       *)
(***************************************************************************)
RECURSIVE Flatten(_)
Flatten(ss) == IF ss = <<>> THEN <<>> ELSE Head(ss) \o Flatten(Tail(ss))

\* strings.LastIndex(s, "/"), 1-based; 0 when there is none
RECURSIVE LastIndex(_, _)
LastIndex(s, i) ==
  IF i = 0 THEN 0 ELSE IF s[i] = "/" THEN i ELSE LastIndex(s, i - 1)

(***************************************************************************)
(* fmt.Sprint and fmt.Sprintf over the operands the model draws: an        *)
(* operand is [str |-> is it a string, text |-> its default rendering].    *)
(* A template is a sequence of tokens in which "%v" is a verb.             *)
(***************************************************************************)
\* fmt.Sprint: a space goes between two operands when neither is a string
RECURSIVE doPrint(_, _)
doPrint(args, n) ==
  IF n = 0 THEN <<>>
  ELSE doPrint(args, n - 1)
       \o (IF n > 1 /\ ~args[n].str /\ ~args[n - 1].str THEN <<" ">> ELSE <<>>)
       \o args[n].text

Sprint(args) == doPrint(args, Len(args))

TypeName(a) == IF a.str THEN "string" ELSE "int"

\* the operands no verb consumed: %!(EXTRA type=value, type=value)
RECURSIVE extraArgs(_, _)
extraArgs(args, argNum) ==
  IF argNum > Len(args) THEN <<>>
  ELSE <<TypeName(args[argNum]), "=">> \o args[argNum].text
       \o (IF argNum < Len(args) THEN <<",", " ">> ELSE <<>>)
       \o extraArgs(args, argNum + 1)

RECURSIVE doPrintf(_, _, _)
doPrintf(format, args, argNum) ==
  IF format = <<>>
  THEN IF argNum <= Len(args)
       THEN <<"%!(EXTRA", " ">> \o extraArgs(args, argNum) \o <<")">>
       ELSE <<>>
  ELSE IF Head(format) = "%v"
       THEN IF argNum <= Len(args)
            THEN args[argNum].text \o doPrintf(Tail(format), args, argNum + 1)
            ELSE <<"%!v(MISSING)">> \o doPrintf(Tail(format), args, argNum)
       ELSE <<Head(format)>> \o doPrintf(Tail(format), args, argNum)

Sprintf(format, args) == doPrintf(format, args, 1)

(***************************************************************************)
(* Tokens of a buffer.  Lit is one byte (or one opaque run of bytes, such  *)
(* as a rendered timestamp); JObj is one JSON object, kept as the set of   *)
(* its members because jsoniter's default configuration does not sort map  *)
(* keys; JVal is one JSON value.                                           *)
(***************************************************************************)
Lit(s) == [kind |-> "lit", s |-> s, members |-> {}]

Lits(text) == [i \in 1..Len(text) |-> Lit(text[i])]

\* the characters of a JSON string: a line feed is escaped, never raw
jsonString(text) ==
  [i \in 1..Len(text) |-> IF text[i] = "\n" THEN "\\n" ELSE text[i]]

JObj(map) == [kind |-> "obj", s |-> "", members |-> map]

JVal(a) ==
  [kind |-> "val", s |-> "",
   members |-> {<<TypeName(a), IF a.str THEN jsonString(a.text) ELSE a.text>>}]

\* m[k] = v on a Go map kept as a set of <<key, value>> pairs
MapSet(m, k, v) == {p \in m : p[1] # k} \cup {<<k, v>>}

MapKeys(m) == {p[1] : p \in m}

\* time.Time.Format(time.RFC3339) of the instant time.Now() returned
RFC3339 == <<"2006-01-02T15:04:05Z07:00">>

(***************************************************************************)
(* Entry, logie.go:205-224.  The logger back-reference is left out: there  *)
(* is one Logger.  Time is "" (the zero time) or "now".                    *)
(***************************************************************************)
entry ==
  [Buf |-> <<>>, Map |-> {}, Level |-> TraceLevel, Time |-> "", File |-> <<>>,
   Line |-> 0, Func |-> <<>>, Format |-> FmtEmptySeparate, Args |-> <<>>]

(***************************************************************************)
(* Formatters, logie.go:267-337.  A formatter value is a pointer to a      *)
(* TextFormatter or a JSONFormatter, or the nil interface.                 *)
(***************************************************************************)
TextFormatter(ignore) == [kind |-> "text", IgnoreBasicFields |-> ignore]

JSONFormatter(ignore) == [kind |-> "json", IgnoreBasicFields |-> ignore]

NilFormatter == [kind |-> "nil", IgnoreBasicFields |-> FALSE]

\* the rendered message: fmt.Sprint without a template, fmt.Sprintf with one
Message(e) ==
  IF e.Format = FmtEmptySeparate THEN Sprint(e.Args) ELSE Sprintf(e.Format, e.Args)

\* logie.go:279-285: the file name after its last '/', index 0 not examined
RECURSIVE shortFrom(_, _)
shortFrom(file, i) ==
  IF i <= 1 THEN file
  ELSE IF file[i] = "/" THEN SubSeq(file, i + 1, Len(file))
  ELSE shortFrom(file, i - 1)

short(file) == shortFrom(file, Len(file))

\* TextFormatter.Format: the entry with the line appended to its buffer
TextFormat(f, e) ==
  LET basic ==
        IF ~f.IgnoreBasicFields
        THEN Lits(RFC3339 \o <<" ">> \o LevelMapping[e.Level])
             \o (IF e.File # <<>>
                 THEN Lits(<<" ">> \o short(e.File) \o <<":", ToString(e.Line)>>)
                 ELSE <<>>)
             \o Lits(<<" ">>)
        ELSE <<>>
  IN [e EXCEPT !.Buf = e.Buf \o basic \o Lits(Message(e)) \o Lits(<<"\n">>)]

\* JSONFormatter.Format: the entry with its map filled and its buffer appended
JSONFormat(f, e) ==
  IF ~f.IgnoreBasicFields
  THEN LET m1 == MapSet(MapSet(e.Map, "level", LevelMapping[e.Level]), "time", RFC3339)
           m2 == IF e.File # <<>>
                 THEN MapSet(MapSet(m1, "file", e.File \o <<":", ToString(e.Line)>>),
                             "func", e.Func)
                 ELSE m1
           m3 == MapSet(m2, "message", Message(e))
       IN [e EXCEPT !.Map = m3,
                    !.Buf = e.Buf \o <<JObj({<<p[1], jsonString(p[2])>> : p \in m3})>>
                            \o Lits(<<"\n">>)]
  ELSE IF e.Format = FmtEmptySeparate
       THEN [e EXCEPT !.Buf = e.Buf \o Flatten([i \in 1..Len(e.Args) |->
                                        <<JVal(e.Args[i])>> \o Lits(<<"\n">>)])]
       ELSE [e EXCEPT !.Buf = e.Buf \o Lits(Sprintf(e.Format, e.Args))]

Format(f, e) == IF f.kind = "text" THEN TextFormat(f, e) ELSE JSONFormat(f, e)

(***************************************************************************)
(* options and the Option constructors, logie.go:339-391.  An Option is    *)
(* kept as the constructor's name and its argument.                        *)
(***************************************************************************)
Stderr == "stderr"
NilWriter == "nil"

NoOption ==
  [name |-> "", pos |-> NilWriter, lvl |-> TraceLevel, fmt |-> NilFormatter,
   flag |-> FALSE]

WithPosition(pos) == [NoOption EXCEPT !.name = "WithPosition", !.pos = pos]

WithLevel(lvl) == [NoOption EXCEPT !.name = "WithLevel", !.lvl = lvl]

WithStdLevel(lvl) == [NoOption EXCEPT !.name = "WithStdLevel", !.lvl = lvl]

WithFormatter(fmt) == [NoOption EXCEPT !.name = "WithFormatter", !.fmt = fmt]

WithEnableCaller(caller) == [NoOption EXCEPT !.name = "WithEnableCaller", !.flag = caller]

\* (mutant) WithLevel sets the raw-write level too
ApplyOptionBothLevels(o, op) ==
  CASE op.name = "WithPosition"     -> [o EXCEPT !.position = op.pos]
    [] op.name = "WithLevel"        -> [o EXCEPT !.level = op.lvl, !.stdLevel = op.lvl]
    [] op.name = "WithStdLevel"     -> [o EXCEPT !.stdLevel = op.lvl]
    [] op.name = "WithFormatter"    -> [o EXCEPT !.formatter = op.fmt]
    [] op.name = "WithEnableCaller" -> [o EXCEPT !.enableCaller = op.flag]

\* opt(o): the options struct after one Option ran on it
ApplyOption(o, op) ==
  CASE op.name = "WithPosition"     -> [o EXCEPT !.position = op.pos]
    [] op.name = "WithLevel"        -> [o EXCEPT !.level = op.lvl]
    [] op.name = "WithStdLevel"     -> [o EXCEPT !.stdLevel = op.lvl]
    [] op.name = "WithFormatter"    -> [o EXCEPT !.formatter = op.fmt]
    [] op.name = "WithEnableCaller" -> [o EXCEPT !.enableCaller = op.flag]

\* for _, opt := range opts { opt(o) }
RECURSIVE ApplyOptions(_, _)
ApplyOptions(o, opts) ==
  IF opts = <<>> THEN o ELSE ApplyOptions(ApplyOption(o, Head(opts)), Tail(opts))

\* &options{}: the zero value
zeroOptions ==
  [position |-> NilWriter, level |-> TraceLevel, stdLevel |-> TraceLevel,
   formatter |-> NilFormatter, enableCaller |-> FALSE]

initOptions(opts) ==
  LET o == ApplyOptions(zeroOptions, opts)
      o1 == IF o.position = NilWriter THEN [o EXCEPT !.position = Stderr] ELSE o
  IN IF o1.formatter = NilFormatter
     THEN [o1 EXCEPT !.formatter = TextFormatter(FALSE)]
     ELSE o1

(***************************************************************************)
(* What the environment supplies: the operands, templates and raw data of  *)
(* the calls, what runtime.Caller(2) answers, and the options.             *)
(***************************************************************************)
StrA == [str |-> TRUE, text |-> <<"a">>]
Int1 == [str |-> FALSE, text |-> <<"1">>]
Int2 == [str |-> FALSE, text |-> <<"2">>]

\* no operand, and a list with a string next to a number and two numbers in a row
ArgLists == {<<>>, <<StrA, Int1, Int2>>}

Templates == {<<"x", "=", "%v">>}

\* a line as package log hands it to an io.Writer, and a bare run of bytes
WriteData == {<<"a", "\n">>, <<"b">>}

\* runtime.Caller(2) and runtime.FuncForPC(pc).Name(): a call site, or !ok
CallerResults ==
  {[ok |-> TRUE, file |-> <<"/", "app", "/", "main.go">>, line |-> 12,
    fn |-> <<"example.com", "/", "app", ".", "run">>],
   [ok |-> FALSE, file |-> <<>>, line |-> 0, fn |-> <<>>]}

Positions == {Stderr, "file"}

Formatters ==
  {TextFormatter(FALSE), TextFormatter(TRUE), JSONFormatter(FALSE), JSONFormatter(TRUE)}

\* every Option a client can build from non-nil arguments
AllOptions ==
  {WithPosition(p) : p \in Positions} \cup {WithLevel(l) : l \in Levels}
  \cup {WithStdLevel(l) : l \in Levels} \cup {WithFormatter(f) : f \in Formatters}
  \cup {WithEnableCaller(b) : b \in BOOLEAN}

\* the option lists of at most n options over S
OptLists(S, n) == UNION {[1..k -> S] : k \in 0..n}

(***************************************************************************)
(* The methods of Logger, logie.go:91-150 (the package-level functions,    *)
(* logie.go:153-203, are the same calls on the logger std).  A call is the *)
(* method with its template and operands; lvl is the level the method      *)
(* passes to Entry.write, which Write reads from opt.stdLevel.             *)
(***************************************************************************)
Plain == {"Debug", "Info", "Warn", "Error", "Panic", "Fatal"}
Formatted == {"Debugf", "Infof", "Warnf", "Errorf", "Panicf", "Fatalf"}

MethodLevel(m) ==
  CASE m \in {"Debug", "Debugf"} -> DebugLevel
    [] m \in {"Info", "Infof"}   -> InfoLevel
    [] m \in {"Warn", "Warnf"}   -> WarnLevel
    [] m \in {"Error", "Errorf"} -> ErrorLevel
    [] m \in {"Panic", "Panicf"} -> PanicLevel
    [] m \in {"Fatal", "Fatalf"} -> FatalLevel
    [] OTHER                     -> TraceLevel

NoCall == [method |-> "", lvl |-> TraceLevel, format |-> FmtEmptySeparate, args |-> <<>>]

CallOf(m, format, args) ==
  [method |-> m, lvl |-> MethodLevel(m), format |-> format, args |-> args]

AllCalls ==
  {CallOf(m, FmtEmptySeparate, a) : m \in Plain, a \in ArgLists}
  \cup {CallOf(m, f, a) : m \in Formatted, f \in Templates, a \in ArgLists}
  \cup {CallOf(m, FmtEmptySeparate, a) : m \in {"Infof", "Panicf"}, a \in ArgLists}
  \cup {CallOf("Write", FmtEmptySeparate, <<[str |-> TRUE, text |-> d]>>) : d \in WriteData}

(***************************************************************************)
(* Level.UnmarshalText, logie.go:393-426.  A byte is an ASCII letter, a    *)
(* digit or a space; an error is its message and the text it quotes.       *)
(***************************************************************************)
Lowercase ==
  <<"a", "b", "c", "d", "e", "f", "g", "h", "i", "j", "k", "l", "m", "n", "o", "p",
    "q", "r", "s", "t", "u", "v", "w", "x", "y", "z">>

Uppercase ==
  <<"A", "B", "C", "D", "E", "F", "G", "H", "I", "J", "K", "L", "M", "N", "O", "P",
    "Q", "R", "S", "T", "U", "V", "W", "X", "Y", "Z">>

\* unicode.ToLower of one byte
ToLowerByte(c) ==
  IF \E i \in 1..26 : Uppercase[i] = c
  THEN Lowercase[CHOOSE i \in 1..26 : Uppercase[i] = c]
  ELSE c

\* bytes.ToLower
ToLower(text) == [i \in 1..Len(text) |-> ToLowerByte(text[i])]

NoError == [msg |-> "", text |-> <<>>]

errUnmarshalNilLevel == [msg |-> "cannot unmarshal nil *Level", text |-> <<>>]

\* fmt.Errorf("unexpected level: %q", text)
errUnexpected(text) == [msg |-> "unexpected level: %q", text |-> text]

\* (mutant) the default branch stores the zero level
unmarshalTextZeroing(val, text) ==
  CASE text \in {<<"t", "r", "a", "c", "e">>, <<"T", "r", "a", "c", "e">>} ->
         [ok |-> TRUE, val |-> TraceLevel]
    [] text \in {<<"d", "e", "b", "u", "g">>, <<"D", "e", "b", "u", "g">>} ->
         [ok |-> TRUE, val |-> DebugLevel]
    [] text \in {<<"i", "n", "f", "o">>, <<"I", "n", "f", "o">>} ->
         [ok |-> TRUE, val |-> InfoLevel]
    [] text \in {<<"w", "a", "r", "n">>, <<"W", "a", "r", "n">>} ->
         [ok |-> TRUE, val |-> WarnLevel]
    [] text \in {<<"e", "r", "r", "o", "r">>, <<"E", "r", "r", "o", "r">>} ->
         [ok |-> TRUE, val |-> ErrorLevel]
    [] text \in {<<"p", "a", "n", "i", "c">>, <<"P", "a", "n", "i", "c">>} ->
         [ok |-> TRUE, val |-> PanicLevel]
    [] text \in {<<"f", "a", "t", "a", "l">>, <<"F", "a", "t", "a", "l">>} ->
         [ok |-> TRUE, val |-> FatalLevel]
    [] OTHER -> [ok |-> FALSE, val |-> TraceLevel]

\* Level.unmarshalText(text) on a level holding val: whether the text is one
\* of the fourteen spellings, and what the level holds afterwards
unmarshalText(val, text) ==
  CASE text \in {<<"t", "r", "a", "c", "e">>, <<"T", "r", "a", "c", "e">>} ->
         [ok |-> TRUE, val |-> TraceLevel]
    [] text \in {<<"d", "e", "b", "u", "g">>, <<"D", "e", "b", "u", "g">>} ->
         [ok |-> TRUE, val |-> DebugLevel]
    [] text \in {<<"i", "n", "f", "o">>, <<"I", "n", "f", "o">>} ->
         [ok |-> TRUE, val |-> InfoLevel]
    [] text \in {<<"w", "a", "r", "n">>, <<"W", "a", "r", "n">>} ->
         [ok |-> TRUE, val |-> WarnLevel]
    [] text \in {<<"e", "r", "r", "o", "r">>, <<"E", "r", "r", "o", "r">>} ->
         [ok |-> TRUE, val |-> ErrorLevel]
    [] text \in {<<"p", "a", "n", "i", "c">>, <<"P", "a", "n", "i", "c">>} ->
         [ok |-> TRUE, val |-> PanicLevel]
    [] text \in {<<"f", "a", "t", "a", "l">>, <<"F", "a", "t", "a", "l">>} ->
         [ok |-> TRUE, val |-> FatalLevel]
    [] OTHER -> [ok |-> FALSE, val |-> val]

\* (mutant) the text is tried verbatim only
UnmarshalTextVerbatim(isNil, val, text) ==
  IF isNil
  THEN [err |-> errUnmarshalNilLevel, val |-> val]
  ELSE LET first == unmarshalText(val, text)
       IN IF ~first.ok
          THEN [err |-> errUnexpected(text), val |-> first.val]
          ELSE [err |-> NoError, val |-> first.val]

\* Level.UnmarshalText(text) on a nil receiver (isNil) or on a level holding
\* val: the error returned and what the level holds afterwards
UnmarshalText(isNil, val, text) ==
  IF isNil
  THEN [err |-> errUnmarshalNilLevel, val |-> val]
  ELSE LET first == unmarshalText(val, text)
           second == unmarshalText(first.val, ToLower(text))
       IN IF ~first.ok /\ ~second.ok
          THEN [err |-> errUnexpected(text), val |-> second.val]
          ELSE [err |-> NoError, val |-> IF first.ok THEN first.val ELSE second.val]

\* no decode going on
NoCodec ==
  [isNil |-> FALSE, old |-> TraceLevel, val |-> TraceLevel, text |-> <<>>,
   err |-> NoError, called |-> FALSE]

(***************************************************************************)
(* The state.                                                              *)
(***************************************************************************)
VARIABLES
  opt,       \* Logger.opt: the options struct
  mu,        \* Logger.mu: 0 when unlocked, else the goroutine that locked it
  entries,   \* every Entry entryPool.New has made, by number
  pool,      \* Logger.entryPool: the numbers of the entries in the pool
  sink,      \* per destination: the bytes of the Write in progress and who is in it
  writes,    \* the calls of Write the destinations have completed
  exitCode,  \* -1 while the process runs, else the status os.Exit was given
  pc,        \* per goroutine: where it is
  call,      \* per goroutine: the call in progress
  ent,       \* per goroutine: the number of the Entry it holds, 0 for none
  opts,      \* per goroutine: the option list of its SetOptions call
  todo,      \* per goroutine: how many of opts the loop still has to run
  panicVal,  \* per goroutine: the value of the panic unwinding it
  obs,       \* per goroutine: what the call in progress has read and written
  nCalls,    \* log calls started
  nSets,     \* SetOptions calls started
  passed,    \* log calls that went through the severity gate
  codec      \* a Level, the text decoded into it and what UnmarshalText returned

vars ==
  <<opt, mu, entries, pool, sink, writes, exitCode, pc, call, ent, opts, todo,
    panicVal, obs, nCalls, nSets, passed, codec>>

Threads == 1..NThreads

Running == -1

\* what a call has observed so far; atGate is the configuration as it stood
\* when the call was at the gate
NoObs ==
  [accepted |-> FALSE, minLevel |-> TraceLevel, caller |-> FALSE,
   formatter |-> NilFormatter, rendered |-> <<>>, dest |-> NilWriter,
   wrote |-> 0, written |-> <<>>, released |-> FALSE, before |-> zeroOptions,
   atGate |-> zeroOptions]

\* New(opts...), logie.go:59-65, as goroutine 1 is about to return from it: the
\* options, an unlocked mutex, an empty pool
InitLogger(newOptLists) ==
  /\ \E newOpts \in newOptLists :
       /\ opt = initOptions(newOpts)
       /\ opts = [t \in Threads |-> IF t = 1 THEN newOpts ELSE <<>>]
  /\ mu = 0
  /\ entries = <<>>
  /\ pool = {}
  /\ sink = [d \in Positions |-> [buf |-> <<>>, open |-> {}]]
  /\ writes = 0
  /\ exitCode = Running
  /\ pc = [t \in Threads |-> IF t = 1 THEN "new" ELSE "idle"]
  /\ call = [t \in Threads |-> NoCall]
  /\ ent = [t \in Threads |-> 0]
  /\ todo = [t \in Threads |-> 0]
  /\ panicVal = [t \in Threads |-> <<>>]
  /\ obs = [t \in Threads |-> NoObs]
  /\ nCalls = 0
  /\ nSets = 0
  /\ passed = 0

\* the program with a Logger just built and no decode going on
InitWith(newOptLists) ==
  /\ InitLogger(newOptLists)
  /\ codec = NoCodec

\* New has returned the Logger: before that no goroutine has it
Constructed == \A t \in Threads : pc[t] # "new"

\* New returns, logie.go:64
New(t) ==
  /\ pc[t] = "new"
  /\ pc' = [pc EXCEPT ![t] = "idle"]
  /\ opts' = [opts EXCEPT ![t] = <<>>]
  /\ UNCHANGED <<opt, mu, entries, pool, sink, writes, exitCode, call, ent, todo,
                 panicVal, obs, nCalls, nSets, passed, codec>>

(***************************************************************************)
(* A log call, step by step: every read of Logger.opt, every operation on  *)
(* the mutex, the pool and the destination is a step of its own.           *)
(***************************************************************************)
IsPanic(m) == m \in {"Panic", "Panicf"}

IsFatal(m) == m \in {"Fatal", "Fatalf"}

\* (mutant) the gate also stops a call at exactly the minimum level
GatedAtMinimum(o, lvl) == o.level >= lvl

\* if e.logger.opt.level > lvl { return }
Gated(o, lvl) == o.level > lvl

\* (mutant) Lock returns at once, whoever holds the mutex
CanLockAlways(m) == TRUE

\* sync.Mutex.Lock returns only once the mutex is unlocked
CanLock(m) == m = 0


\* the part of a buffer the destination has taken when Write is half way
FirstPart(b) == SubSeq(b, 1, (Len(b) + 1) \div 2)

RestPart(b) == SubSeq(b, (Len(b) + 1) \div 2 + 1, Len(b))

\* a nil interface's method was called: the goroutine panics where it stands
NilDereference(t) ==
  /\ pc' = [pc EXCEPT ![t] = "panicking"]
  /\ panicVal' = [panicVal EXCEPT ![t] = <<"nil pointer dereference">>]

\* l.entry().write(...): Logger.entry takes an Entry out of the pool, which
\* hands out one it holds or makes one with entry(logger)
Call(t, c) ==
  /\ exitCode = Running
  /\ Constructed
  /\ pc[t] = "idle"
  /\ nCalls < MaxCalls
  /\ \E e \in pool \cup {Len(entries) + 1} :
       /\ entries' = IF e > Len(entries) THEN Append(entries, entry) ELSE entries
       /\ pool' = pool \ {e}
       /\ ent' = [ent EXCEPT ![t] = e]
  /\ call' = [call EXCEPT ![t] = c]
  /\ obs' = [obs EXCEPT ![t] = NoObs]
  /\ nCalls' = nCalls + 1
  /\ pc' = [pc EXCEPT ![t] = IF c.method = "Write" THEN "stdLevel" ELSE "gate"]
  /\ UNCHANGED <<opt, mu, sink, writes, exitCode, opts, todo, panicVal, nSets, passed, codec>>

\* (mutant) Logger.Write passes l.opt.level
stdLevelIsLevel(t) ==
  /\ exitCode = Running
  /\ pc[t] = "stdLevel"
  /\ call' = [call EXCEPT ![t].lvl = opt.level]
  /\ pc' = [pc EXCEPT ![t] = "gate"]
  /\ UNCHANGED <<opt, mu, entries, pool, sink, writes, exitCode, ent, opts, todo,
                 panicVal, obs, nCalls, nSets, passed, codec>>

\* Logger.Write: the level argument l.opt.stdLevel is read after l.entry()
stdLevel(t) ==
  /\ exitCode = Running
  /\ pc[t] = "stdLevel"
  /\ call' = [call EXCEPT ![t].lvl = opt.stdLevel]
  /\ pc' = [pc EXCEPT ![t] = "gate"]
  /\ UNCHANGED <<opt, mu, entries, pool, sink, writes, exitCode, ent, opts, todo,
                 panicVal, obs, nCalls, nSets, passed, codec>>

\* Entry.write, logie.go:227-233: the severity gate, then the entry is stamped
gate(t) ==
  /\ exitCode = Running
  /\ pc[t] = "gate"
  /\ IF Gated(opt, call[t].lvl)
     THEN /\ pc' = [pc EXCEPT ![t] = "return"]
          /\ obs' = [obs EXCEPT ![t].minLevel = opt.level, ![t].atGate = opt]
          /\ UNCHANGED <<entries, passed>>
     ELSE /\ entries' = [entries EXCEPT ![ent[t]] =
                           [@ EXCEPT !.Time = "now", !.Level = call[t].lvl,
                                     !.Format = call[t].format, !.Args = call[t].args]]
          /\ obs' = [obs EXCEPT ![t].minLevel = opt.level, ![t].accepted = TRUE,
                                ![t].atGate = opt]
          /\ passed' = passed + 1
          /\ pc' = [pc EXCEPT ![t] = "caller"]
  /\ UNCHANGED <<opt, mu, pool, sink, writes, exitCode, call, ent, opts, todo,
                 panicVal, nCalls, nSets, codec>>

\* whether Entry.write resolves the call site, logie.go:236
Captures(o) == ~o.enableCaller

\* Entry.write, logie.go:236-244: the call site
caller(t) ==
  /\ exitCode = Running
  /\ pc[t] = "caller"
  /\ IF Captures(opt)
     THEN \E r \in CallerResults :
            entries' = [entries EXCEPT ![ent[t]] =
              IF ~r.ok
              THEN [@ EXCEPT !.File = <<"unknown">>, !.Func = <<"unknown">>]
              ELSE [@ EXCEPT !.File = r.file, !.Line = r.line,
                             !.Func = SubSeq(r.fn, LastIndex(r.fn, Len(r.fn)) + 1,
                                             Len(r.fn))]]
     ELSE UNCHANGED entries
  /\ obs' = [obs EXCEPT ![t].caller = opt.enableCaller]
  /\ pc' = [pc EXCEPT ![t] = "format"]
  /\ UNCHANGED <<opt, mu, pool, sink, writes, exitCode, call, ent, opts, todo,
                 panicVal, nCalls, nSets, passed, codec>>

\* the option a SetOptions call in progress runs next
NextOption(t) == opts[t][Len(opts[t]) - todo[t] + 1]

\* the goroutines inside SetOptions whose next option writes this field
WritersOf(name) ==
  {t \in Threads : pc[t] = "setApply" /\ todo[t] > 0 /\ NextOption(t).name = name}

\* an interface value is two words, the type and the pointer: a read that
\* races with the write of b over a may see either word of either value.  With
\* a nil value among them every mix is a nil dereference, as reading nil is.
Torn(a, b) ==
  IF NilFormatter \in {a, b} THEN {a, b}
  ELSE {[kind |-> x.kind, IgnoreBasicFields |-> y.IgnoreBasicFields] : x, y \in {a, b}}

\* what the unsynchronized read of e.logger.opt.formatter may return
FormatterReads ==
  {opt.formatter}
  \cup UNION {Torn(opt.formatter, NextOption(w).fmt) : w \in WritersOf("WithFormatter")}

\* Entry.format, logie.go:251-253: the formatter's error is dropped
format(t) ==
  /\ exitCode = Running
  /\ pc[t] = "format"
  /\ \E fmt \in FormatterReads :
       IF fmt = NilFormatter
       THEN /\ NilDereference(t)
            /\ UNCHANGED <<entries, obs>>
       ELSE LET e == entries[ent[t]]
                f == Format(fmt, e)
            IN /\ entries' = [entries EXCEPT ![ent[t]] = f]
               /\ obs' = [obs EXCEPT ![t].formatter = fmt,
                                     ![t].rendered = Format(fmt, [e EXCEPT !.Buf = <<>>]).Buf]
               /\ pc' = [pc EXCEPT ![t] = "lock"]
               /\ UNCHANGED panicVal
  /\ UNCHANGED <<opt, mu, pool, sink, writes, exitCode, call, ent, opts, todo,
                 nCalls, nSets, passed, codec>>

\* Entry.writer, logie.go:256: e.logger.mu.Lock()
writerLock(t) ==
  /\ exitCode = Running
  /\ pc[t] = "lock"
  /\ CanLock(mu)
  /\ mu' = t
  /\ pc' = [pc EXCEPT ![t] = "write"]
  /\ UNCHANGED <<opt, entries, pool, sink, writes, exitCode, call, ent, opts, todo,
                 panicVal, obs, nCalls, nSets, passed, codec>>

\* Entry.writer, logie.go:257: position.Write(e.Buf.Bytes()) is entered and the
\* destination starts taking the bytes
writerBegin(t) ==
  /\ exitCode = Running
  /\ pc[t] = "write"
  /\ IF opt.position = NilWriter
     THEN /\ NilDereference(t)
          /\ UNCHANGED <<sink, obs>>
     ELSE LET d == opt.position
          IN /\ sink' = [sink EXCEPT ![d] =
                           [buf |-> @.buf \o FirstPart(entries[ent[t]].Buf),
                            open |-> @.open \cup {t}]]
             /\ obs' = [obs EXCEPT ![t].dest = d]
             /\ pc' = [pc EXCEPT ![t] = "writing"]
             /\ UNCHANGED panicVal
  /\ UNCHANGED <<opt, mu, entries, pool, writes, exitCode, call, ent, opts, todo,
                 nCalls, nSets, passed, codec>>

\* the destination takes the rest of the bytes and Write returns; what it got
\* in this call is kept in obs
writerEnd(t) ==
  /\ exitCode = Running
  /\ pc[t] = "writing"
  /\ LET d == obs[t].dest
         got == sink[d].buf \o RestPart(entries[ent[t]].Buf)
     IN /\ sink' = [sink EXCEPT ![d] = [buf |-> <<>>, open |-> @.open \ {t}]]
        /\ obs' = [obs EXCEPT ![t].written = got, ![t].wrote = @ + 1]
  /\ writes' = writes + 1
  /\ pc' = [pc EXCEPT ![t] = "unlock"]
  /\ UNCHANGED <<opt, mu, entries, pool, exitCode, call, ent, opts, todo, panicVal,
                 nCalls, nSets, passed, codec>>

\* (mutant) Entry.writer returns without l.mu.Unlock()
writerKeepsLock(t) ==
  /\ exitCode = Running
  /\ pc[t] = "unlock"
  /\ pc' = [pc EXCEPT ![t] = "release"]
  /\ UNCHANGED <<opt, mu, entries, pool, sink, writes, exitCode, call, ent, opts, todo,
                 panicVal, obs, nCalls, nSets, passed, codec>>

\* Entry.writer, logie.go:258: e.logger.mu.Unlock()
writerUnlock(t) ==
  /\ exitCode = Running
  /\ pc[t] = "unlock"
  /\ mu' = 0
  /\ pc' = [pc EXCEPT ![t] = "release"]
  /\ UNCHANGED <<opt, entries, pool, sink, writes, exitCode, call, ent, opts, todo,
                 panicVal, obs, nCalls, nSets, passed, codec>>

\* the fields Entry.release clears, logie.go:262-263
Cleared(e) ==
  [e EXCEPT !.Args = <<>>, !.Line = 0, !.File = <<>>, !.Format = FmtEmptySeparate,
            !.Func = <<>>, !.Buf = <<>>]

\* Entry.release, logie.go:261-265
release(t) ==
  /\ exitCode = Running
  /\ pc[t] = "release"
  /\ entries' = [entries EXCEPT ![ent[t]] = Cleared(@)]
  /\ pool' = pool \cup {ent[t]}
  /\ ent' = [ent EXCEPT ![t] = 0]
  /\ obs' = [obs EXCEPT ![t].released = TRUE]
  /\ pc' = [pc EXCEPT ![t] = "return"]
  /\ UNCHANGED <<opt, mu, sink, writes, exitCode, call, opts, todo, panicVal,
                 nCalls, nSets, passed, codec>>

\* the goroutine is back in its caller
Idle(t) ==
  /\ pc' = [pc EXCEPT ![t] = "idle"]
  /\ call' = [call EXCEPT ![t] = NoCall]
  /\ ent' = [ent EXCEPT ![t] = 0]
  /\ obs' = [obs EXCEPT ![t] = NoObs]
  /\ panicVal' = [panicVal EXCEPT ![t] = <<>>]

\* Entry.write has returned to Debug..Error, Debugf..Errorf or Write, which return
Return(t) ==
  /\ exitCode = Running
  /\ pc[t] = "return"
  /\ ~IsPanic(call[t].method)
  /\ ~IsFatal(call[t].method)
  /\ Idle(t)
  /\ UNCHANGED <<opt, mu, entries, pool, sink, writes, exitCode, opts, todo,
                 nCalls, nSets, passed, codec>>

\* (mutant) Panicf panics with fmt.Sprint(args...), as Panic does
PanicValueSprint(c) == Sprint(c.args)

\* what Panic and Panicf hand to panic, logie.go:118 and 144
PanicValue(c) ==
  IF c.method = "Panic" THEN Sprint(c.args) ELSE Sprintf(c.format, c.args)

\* Entry.write has returned to Panic or Panicf: panic(fmt.Sprint(args...))
Panic(t) ==
  /\ exitCode = Running
  /\ pc[t] = "return"
  /\ IsPanic(call[t].method)
  /\ panicVal' = [panicVal EXCEPT ![t] = PanicValue(call[t])]
  /\ pc' = [pc EXCEPT ![t] = "panicking"]
  /\ UNCHANGED <<opt, mu, entries, pool, sink, writes, exitCode, call, ent, opts,
                 todo, obs, nCalls, nSets, passed, codec>>

\* the caller of the logger recovers the panic and goes on
Recover(t) ==
  /\ exitCode = Running
  /\ pc[t] = "panicking"
  /\ Idle(t)
  /\ UNCHANGED <<opt, mu, entries, pool, sink, writes, exitCode, opts, todo,
                 nCalls, nSets, passed, codec>>

\* (mutant) Fatal and Fatalf end the process with os.Exit(0)
FatalExitZero(t) ==
  /\ exitCode = Running
  /\ pc[t] = "return"
  /\ IsFatal(call[t].method)
  /\ exitCode' = 0
  /\ pc' = [pc EXCEPT ![t] = "exited"]
  /\ UNCHANGED <<opt, mu, entries, pool, sink, writes, call, ent, opts, todo,
                 panicVal, obs, nCalls, nSets, passed, codec>>

\* Entry.write has returned to Fatal or Fatalf: os.Exit(1) ends the process
Fatal(t) ==
  /\ exitCode = Running
  /\ pc[t] = "return"
  /\ IsFatal(call[t].method)
  /\ exitCode' = 1
  /\ pc' = [pc EXCEPT ![t] = "exited"]
  /\ UNCHANGED <<opt, mu, entries, pool, sink, writes, call, ent, opts, todo,
                 panicVal, obs, nCalls, nSets, passed, codec>>

(***************************************************************************)
(* Logger.SetOptions, logie.go:75-81.                                      *)
(***************************************************************************)
SetOptions(t, o) ==
  /\ exitCode = Running
  /\ Constructed
  /\ pc[t] = "idle"
  /\ nSets < MaxSetOptions
  /\ opts' = [opts EXCEPT ![t] = o]
  /\ todo' = [todo EXCEPT ![t] = Len(o)]
  /\ nSets' = nSets + 1
  /\ pc' = [pc EXCEPT ![t] = "setLock"]
  /\ UNCHANGED <<opt, mu, entries, pool, sink, writes, exitCode, call, ent,
                 panicVal, obs, nCalls, passed, codec>>

\* (mutant) SetOptions takes a lock of its own, which is always free here
setLockOwn(t) ==
  /\ exitCode = Running
  /\ pc[t] = "setLock"
  /\ mu' = mu
  /\ obs' = [obs EXCEPT ![t].before = opt]
  /\ pc' = [pc EXCEPT ![t] = "setApply"]
  /\ UNCHANGED <<opt, entries, pool, sink, writes, exitCode, call, ent, opts, todo,
                 panicVal, nCalls, nSets, passed, codec>>

\* l.mu.Lock()
setLock(t) ==
  /\ exitCode = Running
  /\ pc[t] = "setLock"
  /\ CanLock(mu)
  /\ mu' = t
  /\ obs' = [obs EXCEPT ![t].before = opt]
  /\ pc' = [pc EXCEPT ![t] = "setApply"]
  /\ UNCHANGED <<opt, entries, pool, sink, writes, exitCode, call, ent, opts, todo,
                 panicVal, nCalls, nSets, passed, codec>>

\* one turn of the loop: opt(l.opt)
setApply(t) ==
  /\ exitCode = Running
  /\ pc[t] = "setApply"
  /\ todo[t] > 0
  /\ opt' = ApplyOption(opt, NextOption(t))
  /\ todo' = [todo EXCEPT ![t] = @ - 1]
  /\ UNCHANGED <<mu, entries, pool, sink, writes, exitCode, pc, call, ent, opts,
                 panicVal, obs, nCalls, nSets, passed, codec>>

\* l.mu.Unlock(), and SetOptions returns
setUnlock(t) ==
  /\ exitCode = Running
  /\ pc[t] = "setApply"
  /\ todo[t] = 0
  /\ mu' = 0
  /\ opts' = [opts EXCEPT ![t] = <<>>]
  /\ obs' = [obs EXCEPT ![t] = NoObs]
  /\ pc' = [pc EXCEPT ![t] = "idle"]
  /\ UNCHANGED <<opt, entries, pool, sink, writes, exitCode, call, ent, todo,
                 panicVal, nCalls, nSets, passed, codec>>

\* a step inside a log call
CallStep(t) ==
  \/ stdLevel(t)
  \/ gate(t)
  \/ caller(t)
  \/ format(t)
  \/ writerLock(t)
  \/ writerBegin(t)
  \/ writerEnd(t)
  \/ writerUnlock(t)
  \/ release(t)
  \/ Return(t)
  \/ Panic(t)
  \/ Recover(t)
  \/ Fatal(t)

\* a step inside SetOptions
SetStep(t) ==
  \/ setLock(t)
  \/ setApply(t)
  \/ setUnlock(t)

(***************************************************************************)
(* SpecOne, one call: goroutine 1 builds the Logger from any option list   *)
(* and calls any method once, with any operands.                           *)
(***************************************************************************)
InitOne == InitWith(OptLists(AllOptions, MaxOpts))

NextOne ==
  \/ New(1)
  \/ \E c \in AllCalls : nCalls = 0 /\ Call(1, c)
  \/ CallStep(1)

SpecOne == InitOne /\ [][NextOne]_vars

(***************************************************************************)
(* Spec, the goroutines together: each may call a method or SetOptions,    *)
(* over a few calls and option lists, while the others are in theirs.      *)
(***************************************************************************)
FewCalls ==
  {CallOf("Info", FmtEmptySeparate, <<StrA, Int1, Int2>>),
   CallOf("Panicf", <<"x", "=", "%v">>, <<>>),
   CallOf("Fatal", FmtEmptySeparate, <<>>),
   CallOf("Write", FmtEmptySeparate, <<[str |-> TRUE, text |-> <<"a", "\n">>]>>)}

FewNewOptLists == {<<>>, <<WithFormatter(JSONFormatter(FALSE))>>}

FewOptLists ==
  {<<WithEnableCaller(TRUE), WithLevel(WarnLevel)>>,
   <<WithFormatter(JSONFormatter(TRUE)), WithPosition("file")>>}

Init == InitWith(FewNewOptLists)

Next ==
  \E t \in Threads :
    \/ New(t)
    \/ \E c \in FewCalls : Call(t, c)
    \/ CallStep(t)
    \/ \E o \in FewOptLists : SetOptions(t, o)
    \/ SetStep(t)

Spec == Init /\ [][Next]_vars

(***************************************************************************)
(* SpecWriters, accepted calls only: the goroutines call Info and Write on *)
(* a Logger whose minimum level is Trace, and nobody changes the options.  *)
(***************************************************************************)
WriterCalls ==
  {CallOf("Info", FmtEmptySeparate, <<StrA, Int1, Int2>>),
   CallOf("Write", FmtEmptySeparate, <<[str |-> TRUE, text |-> <<"a", "\n">>]>>)}

WriterOptLists ==
  {<<WithEnableCaller(TRUE)>>,
   <<WithEnableCaller(TRUE), WithFormatter(JSONFormatter(FALSE))>>}

\* a step inside a call that neither panics nor exits
WriterStep(t) ==
  \/ stdLevel(t)
  \/ gate(t)
  \/ caller(t)
  \/ format(t)
  \/ writerLock(t)
  \/ writerBegin(t)
  \/ writerEnd(t)
  \/ writerUnlock(t)
  \/ release(t)
  \/ Return(t)

InitWriters == InitWith(WriterOptLists)

NextWriters ==
  \E t \in Threads :
    \/ New(t)
    \/ \E c \in WriterCalls : Call(t, c)
    \/ WriterStep(t)

SpecWriters == InitWriters /\ [][NextWriters]_vars

(***************************************************************************)
(* SpecFair, fair scheduling: the goroutines call the methods and          *)
(* SetOptions as in Spec, over fewer options, and a goroutine that can     *)
(* take a step of the call it is in eventually takes one.  Which calls are *)
(* made, and whether a panic is recovered, is up to the client.            *)
(***************************************************************************)
FairOptLists == {<<WithLevel(WarnLevel), WithPosition("file")>>}

InitFair == InitWith({<<WithEnableCaller(TRUE)>>})

NextFair ==
  \E t \in Threads :
    \/ New(t)
    \/ \E c \in FewCalls : Call(t, c)
    \/ CallStep(t)
    \/ \E o \in FairOptLists : SetOptions(t, o)
    \/ SetStep(t)

\* the steps of t the scheduler owes it: those inside a call
Scheduled(t) ==
  \/ stdLevel(t)
  \/ gate(t)
  \/ caller(t)
  \/ format(t)
  \/ writerLock(t)
  \/ writerBegin(t)
  \/ writerEnd(t)
  \/ writerUnlock(t)
  \/ release(t)
  \/ Return(t)
  \/ Panic(t)
  \/ Fatal(t)
  \/ SetStep(t)

SpecFair ==
  /\ InitFair
  /\ [][NextFair]_vars
  /\ \A t \in Threads : WF_vars(Scheduled(t))

(***************************************************************************)
(* SpecLock, the mutex: the goroutines call Info and SetOptions, which     *)
(* moves the destination, and nothing else.                                *)
(***************************************************************************)
LockCalls == {CallOf("Info", FmtEmptySeparate, <<StrA, Int1, Int2>>)}

LockOptLists == {<<WithPosition("file")>>}

\* a step inside an Info call
LockStep(t) ==
  \/ gate(t)
  \/ caller(t)
  \/ format(t)
  \/ writerLock(t)
  \/ writerBegin(t)
  \/ writerEnd(t)
  \/ writerUnlock(t)
  \/ release(t)
  \/ Return(t)

InitLock == InitWith({<<WithEnableCaller(TRUE)>>})

NextLock ==
  \E t \in Threads :
    \/ New(t)
    \/ \E c \in LockCalls : Call(t, c)
    \/ LockStep(t)
    \/ \E o \in LockOptLists : SetOptions(t, o)
    \/ SetStep(t)

SpecLock == InitLock /\ [][NextLock]_vars

(***************************************************************************)
(* SpecOptions, the configuration: goroutine 1 builds the Logger from an   *)
(* option list, nil arguments among the options, then calls SetOptions and *)
(* after it the methods, one after the other.                              *)
(***************************************************************************)
SomeOptions ==
  {WithPosition("file"), WithPosition(NilWriter),
   WithLevel(FatalLevel), WithStdLevel(ErrorLevel),
   WithFormatter(JSONFormatter(FALSE)), WithFormatter(NilFormatter),
   WithEnableCaller(TRUE)}

SomeCalls ==
  {CallOf("Panic", FmtEmptySeparate, <<StrA, Int1, Int2>>),
   CallOf("Fatal", FmtEmptySeparate, <<>>),
   CallOf("Write", FmtEmptySeparate, <<[str |-> TRUE, text |-> <<"b">>]>>)}

InitOptions == InitWith(OptLists(SomeOptions, MaxOpts))

NextOptions ==
  \/ New(1)
  \/ /\ nCalls = 0
     /\ pc[1] = "idle"
     /\ \E o \in OptLists(SomeOptions, MaxOpts) : SetOptions(1, o)
  \/ SetStep(1)
  \/ \E c \in SomeCalls : Call(1, c)
  \/ CallStep(1)

SpecOptions == InitOptions /\ [][NextOptions]_vars

(***************************************************************************)
(* SpecCodec, the level codec: a client decodes a text into a level, or    *)
(* into a nil *Level.  The texts are every casing of the seven names and a *)
(* few that are no level's name.                                           *)
(***************************************************************************)
\* a letter in its two cases; any other byte has one
BothCases(c) ==
  IF \E i \in 1..26 : c \in {Lowercase[i], Uppercase[i]}
  THEN LET i == CHOOSE j \in 1..26 : c \in {Lowercase[j], Uppercase[j]}
       IN {Lowercase[i], Uppercase[i]}
  ELSE {c}

RECURSIVE Casings(_)
Casings(name) ==
  IF name = <<>> THEN {<<>>}
  ELSE {<<c>> \o r : c \in BothCases(Head(name)), r \in Casings(Tail(name))}

\* every casing of the seven names
Recognized == UNION {Casings(LevelMapping[l]) : l \in Levels}

Unrecognized ==
  {<<>>, <<"x">>, <<"0">>, <<"i", "n", "f">>, <<"I", "N", "F", "O", "S">>,
   <<"w", "a", "r", "n", "i", "n", "g">>, <<"W", "A", "R", "N", "I", "N", "G">>,
   <<"t", "r", "a", "c", "e", " ">>, <<" ", "D", "e", "b", "u", "g">>,
   <<"f", "a", "t", "a", "1">>}

Texts == Recognized \cup Unrecognized

InitCodec ==
  /\ InitLogger({<<>>})
  /\ \E isNil \in BOOLEAN, val \in Levels, text \in Texts :
       codec = [isNil |-> isNil, old |-> val, val |-> val, text |-> text,
                err |-> NoError, called |-> FALSE]

\* err := l.UnmarshalText(text)
Decode ==
  /\ ~codec.called
  /\ LET r == UnmarshalText(codec.isNil, codec.val, codec.text)
     IN codec' = [codec EXCEPT !.err = r.err, !.val = r.val, !.called = TRUE]
  /\ UNCHANGED <<opt, mu, entries, pool, sink, writes, exitCode, pc, call, ent, opts,
                 todo, panicVal, obs, nCalls, nSets, passed>>

NextCodec == Decode

SpecCodec == InitCodec /\ [][NextCodec]_vars

(***************************************************************************)
(* The claims.                                                             *)
(***************************************************************************)
\* Entry.write has returned for the call of t
Done(t) == pc[t] \in {"return", "exited"} \/ (pc[t] = "panicking" /\ IsPanic(call[t].method))

\* C1: a call whose severity is below the minimum level read at the gate makes
\* no write and no byte reaches a destination; a call at or above it makes
\* exactly one write, of exactly the bytes the formatter rendered for it.
\* No call, finished or not, writes twice.
C1_SeverityGate ==
  \A t \in Threads :
    /\ obs[t].wrote <= 1
    /\ Done(t) /\ call[t].lvl < obs[t].minLevel =>
         /\ obs[t].wrote = 0
         /\ obs[t].written = <<>>
         /\ writes = 0
    /\ Done(t) /\ call[t].lvl >= obs[t].minLevel =>
         /\ obs[t].wrote = 1
         /\ obs[t].written = obs[t].rendered
         /\ writes = 1

\* a call at exactly the minimum level, which is not the default, has written
C1_Witness ==
  \E t \in Threads :
    /\ pc[t] = "return"
    /\ call[t].lvl = WarnLevel
    /\ obs[t].minLevel = WarnLevel
    /\ obs[t].wrote = 1

\* the entry of t is stamped and not yet released
Populated(t) == pc[t] \in {"caller", "format", "lock", "write", "writing", "unlock", "release"}

\* C4 as claimed: every Panic or Panicf call panics with the rendered message
\* after the destination write of its line, and the process goes on.
C4_Original ==
  \A t \in Threads :
    pc[t] = "panicking" /\ IsPanic(call[t].method) =>
      /\ panicVal[t] = IF call[t].method = "Panic" THEN Sprint(call[t].args)
                       ELSE Sprintf(call[t].format, call[t].args)
      /\ obs[t].wrote = 1
      /\ exitCode = Running

\* C4, amended: every Panic or Panicf call panics with fmt.Sprint of its
\* operands (Panic) or fmt.Sprintf of its template and operands (Panicf), and
\* the process goes on; the one write of its line has been made before the
\* panic when Panic is at or above the minimum level, and when it is below
\* (the minimum is Fatal) the call writes nothing and panics all the same.
C4_PanicOrdering ==
  \A t \in Threads :
    pc[t] = "panicking" /\ IsPanic(call[t].method) =>
      /\ panicVal[t] = IF call[t].method = "Panic" THEN Sprint(call[t].args)
                       ELSE Sprintf(call[t].format, call[t].args)
      /\ exitCode = Running
      /\ obs[t].minLevel <= PanicLevel =>
           obs[t].wrote = 1 /\ obs[t].written = obs[t].rendered
      /\ obs[t].minLevel > PanicLevel => obs[t].wrote = 0

\* Panicf with a template has written its line and is panicking
C4_Witness ==
  \E t \in Threads :
    /\ pc[t] = "panicking"
    /\ call[t].method = "Panicf"
    /\ call[t].format # FmtEmptySeparate
    /\ call[t].args # <<>>
    /\ obs[t].wrote = 1

\* C5 as claimed: a Fatal or Fatalf call has written its line when it ends the
\* process with a non-zero status, and its record is still acquired then, never
\* returned to the pool.
C5_Original ==
  \A t \in Threads :
    pc[t] = "exited" =>
      /\ obs[t].wrote = 1
      /\ exitCode > 0
      /\ ~obs[t].released
      /\ ent[t] # 0

\* C5, amended: a Fatal or Fatalf call ends the process with status 1, as the
\* step that follows the return of Entry.write; by then it has made the one
\* write of its line and its record, cleared, is back in the pool; no step of
\* any goroutine follows the exit.
C5_FatalOrdering ==
  /\ [](\A t \in Threads :
          pc[t] = "exited" =>
            /\ exitCode = 1
            /\ obs[t].wrote = 1
            /\ obs[t].written = obs[t].rendered
            /\ obs[t].released
            /\ \E e \in pool : entries[e] = Cleared(entries[e]))
  /\ [][/\ exitCode # Running => UNCHANGED vars
        /\ \A t \in Threads :
             pc[t] = "return" /\ IsFatal(call[t].method) /\ pc'[t] # pc[t] =>
               exitCode' = 1 /\ pc'[t] = "exited"]_vars

\* Fatalf has ended the process
C5_Witness ==
  \E t \in Threads :
    /\ pc[t] = "exited"
    /\ call[t].method = "Fatalf"
    /\ exitCode = 1

\* C7 as claimed: the record of an accepted call carries the call site (or
\* "unknown" for file and function) when the caller flag the call read is on,
\* and no file, line or function when it is off.
C7_CallerFollowsFlag ==
  \A t \in Threads :
    pc[t] \in {"format", "lock", "write", "writing", "unlock", "release"} =>
      LET e == entries[ent[t]]
      IN /\ obs[t].caller => e.File # <<>> /\ e.Func # <<>>
         /\ ~obs[t].caller => e.File = <<>> /\ e.Line = 0 /\ e.Func = <<>>

\* C8: Logger.Write(data) goes through the steps of a leveled call with the
\* record's level the raw-write level, no template and data as the one
\* operand, which is the message; it makes its one write, of the rendered
\* record, and releases it exactly when the raw-write level is at or above
\* the minimum level, and writes nothing otherwise.
C8_RawWrite ==
  \A t \in Threads :
    call[t].method = "Write" =>
      /\ Populated(t) /\ pc[t] # "release" =>
           LET e == entries[ent[t]]
           IN /\ e.Level = opt.stdLevel
              /\ e.Format = FmtEmptySeparate
              /\ e.Args = call[t].args
              /\ Len(e.Args) = 1
              /\ Message(e) = call[t].args[1].text
      /\ Done(t) /\ opt.stdLevel >= opt.level =>
           /\ obs[t].wrote = 1
           /\ obs[t].written = obs[t].rendered
           /\ obs[t].released
      /\ Done(t) /\ opt.stdLevel < opt.level =>
           /\ obs[t].wrote = 0
           /\ obs[t].written = <<>>

\* Write has written at a raw-write level equal to a raised minimum level
C8_Witness ==
  \E t \in Threads :
    /\ pc[t] = "return"
    /\ call[t].method = "Write"
    /\ opt.level = WarnLevel
    /\ opt.stdLevel = WarnLevel
    /\ obs[t].wrote = 1

\* the goroutines inside position.Write
Writing == {t \in Threads : pc[t] = "writing"}

\* the goroutines between l.mu.Lock() and l.mu.Unlock() of Entry.writer
InWriter == {t \in Threads : pc[t] \in {"write", "writing", "unlock"}}

\* the calls that passed the gate and have not finished their write
Unwritten == {t \in Threads : obs[t].accepted /\ obs[t].wrote = 0}

\* C2: atomic lines under concurrency.  The destination writes done so far
\* are exactly the calls that passed the gate less those still on their way to
\* the write (none lost, none made twice); a call writes at most once and the
\* bytes the destination got in that write are the bytes rendered for the call,
\* none of another call among them; at most one goroutine is inside the
\* destination write at a time, and it holds the logger mutex.
C2_AtomicLines ==
  /\ writes = passed - Cardinality(Unwritten)
  /\ \A t \in Threads :
       /\ obs[t].wrote <= 1
       /\ obs[t].wrote = 1 => obs[t].accepted /\ obs[t].written = obs[t].rendered
       /\ t \in InWriter => mu = t
  /\ Cardinality(Writing) <= 1
  /\ \A d \in Positions :
       /\ sink[d].open \subseteq Writing
       /\ sink[d].open = {} => sink[d].buf = <<>>

\* every goroutine has made an accepted call and its write is done, while a
\* second goroutine had to wait for the mutex during the first one's write
C2_Witness ==
  /\ writes = NThreads
  /\ \E t \in Threads : pc[t] = "unlock" /\ obs[t].rendered # <<>>
  /\ \E t \in Threads : pc[t] = "lock" /\ obs[t].rendered # <<>>

\* what the formatter the call used renders from the fields the call itself put
\* into its record, on a record that holds nothing else
RenderedAfresh(t) ==
  Format(obs[t].formatter, [entries[ent[t]] EXCEPT !.Buf = <<>>, !.Map = {}]).Buf

\* C3: pool reuse.  A record in the pool, which is what the next call acquires,
\* has no arguments, an empty buffer, an empty template, no file, line 0 and no
\* function; and the output of a call shows nothing a prior call put into the
\* record: it is what the formatter renders from this call's fields alone.
C3_PoolReuse ==
  /\ \A i \in pool :
       /\ entries[i].Args = <<>>
       /\ entries[i].Buf = <<>>
       /\ entries[i].Format = FmtEmptySeparate
       /\ entries[i].File = <<>>
       /\ entries[i].Line = 0
       /\ entries[i].Func = <<>>
  /\ \A t \in Threads :
       pc[t] \in {"lock", "write", "writing", "unlock"}
         => obs[t].rendered = RenderedAfresh(t)

\* the documented defaults of the configuration fields
Defaults ==
  [position |-> Stderr, level |-> TraceLevel, stdLevel |-> TraceLevel,
   formatter |-> TextFormatter(FALSE), enableCaller |-> FALSE]

\* the place in the list of the last option with this name, 0 if there is none
LastNaming(list, name) ==
  LET S == {i \in 1..Len(list) : list[i].name = name}
  IN IF S = {} THEN 0 ELSE CHOOSE i \in S : \A j \in S : j <= i

\* last option wins, field by field, over the values the fields had before
LastWins(base, list) ==
  LET at(name) == list[LastNaming(list, name)]
      named(name) == LastNaming(list, name) # 0
  IN [position     |-> IF named("WithPosition") THEN at("WithPosition").pos
                       ELSE base.position,
      level        |-> IF named("WithLevel") THEN at("WithLevel").lvl ELSE base.level,
      stdLevel     |-> IF named("WithStdLevel") THEN at("WithStdLevel").lvl
                       ELSE base.stdLevel,
      formatter    |-> IF named("WithFormatter") THEN at("WithFormatter").fmt
                       ELSE base.formatter,
      enableCaller |-> IF named("WithEnableCaller") THEN at("WithEnableCaller").flag
                       ELSE base.enableCaller]

\* the options of a SetOptions call that have run
Applied(t) == SubSeq(opts[t], 1, Len(opts[t]) - todo[t])

\* a call of the one goroutine reads the configuration as it stands: the gate,
\* the caller flag, the formatter and the destination are the current ones
UsesCurrent(t) ==
  /\ pc[t] \in {"caller", "format", "lock", "write", "writing", "unlock"}
       => /\ obs[t].accepted
          /\ obs[t].minLevel = opt.level
          /\ opt.level <= call[t].lvl
          /\ call[t].method = "Write" => call[t].lvl = opt.stdLevel
  /\ pc[t] = "return" /\ ~obs[t].accepted => opt.level > call[t].lvl
  /\ pc[t] \in {"format", "lock", "write", "writing", "unlock"}
       => obs[t].caller = opt.enableCaller
  /\ pc[t] \in {"lock", "write", "writing", "unlock"}
       => /\ obs[t].formatter = opt.formatter
          /\ opt.formatter # NilFormatter
  /\ pc[t] \in {"writing", "unlock"}
       => /\ obs[t].dest = opt.position
          /\ opt.position # NilWriter

\* C6 as stated: after New every field holds the value the last option naming
\* it gave, its default if none did; after SetOptions the value the last option
\* naming it gave, its previous value if none did; later calls use the values.
C6_Original ==
  /\ pc[1] = "new" => opt = LastWins(Defaults, opts[1])
  /\ \A t \in Threads :
       /\ pc[t] = "setApply" => opt = LastWins(obs[t].before, Applied(t))
       /\ nSets > 0 /\ pc[t] \notin {"setLock", "setApply"} => UsesCurrent(t)

\* C6: options compose by sequential application.  After New every field
\* holds the value the last option naming it gave, its default if none did,
\* except that a nil destination or a nil formatter given to New is replaced
\* by standard error or the text formatter; inside SetOptions the fields hold,
\* after each option, what last-wins gives for the options run so far over the
\* values before the call (so each option changes its one field only, and nil
\* is stored as given); a call started after SetOptions has returned is gated
\* on, captures by, formats with and writes to the values then in place.
C6_OptionsCompose ==
  /\ pc[1] = "new" =>
       LET e == LastWins(Defaults, opts[1])
       IN opt = [e EXCEPT
                   !.position = IF @ = NilWriter THEN Stderr ELSE @,
                   !.formatter = IF @ = NilFormatter THEN TextFormatter(FALSE) ELSE @]
  /\ \A t \in Threads :
       /\ pc[t] = "setApply" => opt = LastWins(obs[t].before, Applied(t))
       /\ nSets > 0 /\ pc[t] \notin {"setLock", "setApply"} => UsesCurrent(t)

\* SetOptions has run two options naming the same field with different values,
\* on a Logger built from options
C6_Witness ==
  /\ pc[1] = "setApply"
  /\ todo[1] = 0
  /\ Len(opts[1]) = 2
  /\ opts[1][1].name = opts[1][2].name
  /\ opts[1][1] # opts[1][2]
  /\ obs[1].before # Defaults
  /\ opt # obs[1].before

\* C9: level codec round trip and case-insensitivity.  Decoding into a level
\* the name LevelMapping gives for L yields L, and decoding any casing of that
\* name succeeds and yields L as well.
C9_CodecRoundTrip ==
  codec.called /\ ~codec.isNil =>
    \A l \in Levels :
      /\ codec.text = LevelMapping[l] => codec.err = NoError /\ codec.val = l
      /\ codec.text \in Casings(LevelMapping[l]) => codec.err = NoError /\ codec.val = l

\* a mixed casing, neither all lower nor the table's, was decoded over a level
\* that held something else
C9_Witness ==
  /\ codec.called
  /\ ~codec.isNil
  /\ codec.text = <<"w", "A", "r", "N">>
  /\ codec.old = FatalLevel
  /\ codec.val = WarnLevel

\* C10: level decode errors.  A text that is no casing of the seven names
\* fails with the error that quotes the text, and the level keeps its value; a
\* nil target fails with errUnmarshalNilLevel, which is not that error, whatever
\* the text; a casing of a name decoded into a level returns no error.
C10_DecodeErrors ==
  codec.called =>
    /\ codec.isNil =>
         /\ codec.err = errUnmarshalNilLevel
         /\ codec.err # NoError
         /\ codec.err.msg # errUnexpected(codec.text).msg
    /\ ~codec.isNil /\ codec.text \notin Recognized =>
         /\ codec.err = errUnexpected(codec.text)
         /\ codec.err # NoError
         /\ codec.val = codec.old
    /\ ~codec.isNil /\ codec.text \in Recognized => codec.err = NoError

\* a text that extends a name was refused and the level kept its value; the
\* same text with a nil target is covered by the other initial states
C10_Witness ==
  /\ codec.called
  /\ ~codec.isNil
  /\ codec.text = <<"w", "a", "r", "n", "i", "n", "g">>
  /\ codec.old = ErrorLevel
  /\ codec.val = ErrorLevel
  /\ codec.err.text = codec.text

\* the message of the call of t as the formatter renders it, in buffer bytes
CallMessage(t) == Lits(Message([Format |-> call[t].format, Args |-> call[t].args]))

\* whether part occurs in whole as a run of consecutive bytes
Contains(whole, part) ==
  \E i \in 1..(Len(whole) - Len(part) + 1) :
    SubSeq(whole, i, i + Len(part) - 1) = part

\* the bytes end with one newline and the byte before it, if any, is not one
EndsWithOneNewline(b) ==
  /\ Len(b) >= 1
  /\ b[Len(b)] = Lit("\n")
  /\ Len(b) >= 2 => b[Len(b) - 1] # Lit("\n")

\* C11: text formatter termination.  The bytes an accepted call rendered by the
\* text formatter wrote to the destination end with exactly one newline and
\* contain the rendered message.
C11_TextTermination ==
  \A t \in Threads :
    obs[t].wrote = 1 /\ obs[t].formatter.kind = "text" =>
      /\ EndsWithOneNewline(obs[t].written)
      /\ Contains(obs[t].written, CallMessage(t))

\* the goroutines whose call is between l.entry() and the end of Entry.write
InFlight ==
  {t \in Threads : pc[t] \in {"stdLevel", "gate", "caller", "format", "lock",
                               "write", "writing", "unlock", "release"}}

\* the records that are not in the pool
Outside == (1..Len(entries)) \ pool

\* C12: release on every exit path.  The records outside the pool are as many
\* as the calls in flight, and a call whose Entry.write has returned, stopped at
\* the gate or not, holds no record that is outside the pool.
C12_ReleaseOnEveryPath ==
  /\ Cardinality(Outside) = Cardinality(InFlight)
  /\ \A t \in Threads : Done(t) => ent[t] \notin Outside

\* the goroutines that have just taken their record out of the pool
JustAcquired == {t \in Threads : pc[t] \in {"stdLevel", "gate"}}

\* the JSON object of a call whose record has no call site has no file, no func
NoStaleCallSite(t) ==
  pc[t] \in {"lock", "write", "writing", "unlock"}
  /\ obs[t].formatter = JSONFormatter(FALSE)
  /\ entries[ent[t]].File = <<>>
    => MapKeys(entries[ent[t]].Map) \cap {"file", "func"} = {}

\* C13: mapping invariant.  The mapping of a record is empty while the record
\* is in the pool and when a call has just acquired it; and a JSON object
\* rendered for a call without caller metadata has no file and no func key,
\* whatever the record was used for before.
C13_MappingInvariant ==
  /\ \A i \in pool : entries[i].Map = {}
  /\ \A t \in JustAcquired : entries[ent[t]].Map = {}
  /\ \A t \in Threads : NoStaleCallSite(t)

\* the goroutines whose call holds record i
Holders(i) == {t \in Threads : ent[t] = i}

\* C14: exclusive record ownership.  Every record is either in the pool and
\* held by nobody, or out of the pool and held by exactly one call in flight;
\* a call that is not in flight holds no record; and release puts into the
\* pool only a record that is not in it.
C14_ExclusiveOwnership ==
  /\ \A i \in 1..Len(entries) :
       \/ i \in pool /\ Holders(i) = {}
       \/ i \notin pool /\ Cardinality(Holders(i)) = 1 /\ Holders(i) \subseteq InFlight
  /\ \A t \in Threads : t \notin InFlight => ent[t] = 0
  /\ \A t \in Threads : pc[t] = "release" => ent[t] \notin pool

\* the goroutines inside SetOptions, between l.mu.Lock() and l.mu.Unlock()
InSetOptions == {t \in Threads : pc[t] = "setApply"}

\* C15 as stated: SetOptions and the destination write have locks of their
\* own, so a SetOptions can take its lock whenever no other SetOptions is in
\* progress, whoever is flushing, and a call can take the destination lock
\* whenever no other call is flushing, whoever is in SetOptions.
C15_Original ==
  \A t \in Threads :
    /\ pc[t] = "setLock" /\ InSetOptions = {} => CanLock(mu)
    /\ pc[t] = "lock" /\ InWriter = {} => CanLock(mu)

\* C15: one lock.  SetOptions and the destination write are both serialized by
\* Logger.mu: whoever is inside either holds it, so a SetOptions in progress
\* and a flush never overlap, and no two SetOptions calls overlap.
C15_OneLock ==
  /\ \A t \in InWriter \cup InSetOptions : mu = t
  /\ Cardinality(InWriter \cup InSetOptions) <= 1
  /\ mu # 0 => mu \in InWriter \cup InSetOptions

\* a call waits to flush while SetOptions, holding the mutex, still has an
\* option to apply
C15_Witness ==
  \E t1, t2 \in Threads :
    /\ pc[t1] = "lock"
    /\ pc[t2] = "setApply"
    /\ todo[t2] > 0
    /\ mu = t2

\* where a log call is when its next step reads the field this option writes
ReaderPc(name) ==
  CASE name = "WithLevel"        -> "gate"
    [] name = "WithStdLevel"     -> "stdLevel"
    [] name = "WithEnableCaller" -> "caller"
    [] name = "WithFormatter"    -> "format"
    [] name = "WithPosition"     -> "write"

\* the next step of r reads a field and the next step of w writes that field:
\* the two accesses are not ordered
Racing(r, w) ==
  /\ w \in InSetOptions
  /\ todo[w] > 0
  /\ pc[r] = ReaderPc(NextOption(w).name)

\* C16: SetOptions is safe against in-flight calls.  In no state is a log call
\* about to read a configuration field that a SetOptions call in progress is
\* about to write: a common lock orders every such read and write.
C16_SetOptionsSafe ==
  \A r, w \in Threads : ~Racing(r, w)

\* C17: configuration snapshot per call.  A call past the gate captures by the
\* caller flag, formats with the formatter and writes to the destination that
\* the configuration held when the call was at the gate.
C17_SnapshotPerCall ==
  \A t \in Threads :
    /\ pc[t] \in {"format", "lock", "write", "writing", "unlock", "release"}
         => obs[t].caller = obs[t].atGate.enableCaller
    /\ pc[t] \in {"lock", "write", "writing", "unlock", "release"}
         => obs[t].formatter = obs[t].atGate.formatter
    /\ pc[t] \in {"writing", "unlock", "release"}
         => obs[t].dest = obs[t].atGate.position

\* t is inside a log call or inside SetOptions
Busy(t) == pc[t] \notin {"new", "idle", "panicking", "exited"}

\* the call of t has returned or panicked, or a Fatal call has ended the process
Completed(t) == pc[t] \in {"idle", "panicking", "exited"} \/ exitCode # Running

\* C18: progress.  Under fair scheduling every log call and every SetOptions
\* call completes (unless a Fatal call ends the process first); the mutex is
\* held only by a goroutine between Lock and Unlock of Entry.writer or of
\* SetOptions, so every path that took it gives it back; and a goroutine that
\* waits for the mutex waits for one that can take a step.
C18_Progress ==
  /\ \A t \in Threads : Busy(t) ~> Completed(t)
  /\ [](mu # 0 => mu \in InWriter \cup InSetOptions)
  /\ [](\A t \in Threads : exitCode = Running /\ Busy(t) => \E u \in Threads : ENABLED Scheduled(u))

\* SetOptions waits for the mutex while a call is inside the destination write
\* and the other way round is C15's witness
C18_Witness ==
  \E t1, t2 \in Threads :
    /\ pc[t1] = "setLock"
    /\ pc[t2] = "writing"
    /\ mu = t2
    /\ nCalls >= 2

\* the goroutines that stand in the panic of a call on a nil interface
Dereferenced ==
  {t \in Threads : pc[t] = "panicking" /\ panicVal[t] = <<"nil pointer dereference">>}

\* C19: configuration is always usable.  Once New has returned, and whatever
\* options SetOptions has run since, the destination and the formatter are not
\* nil, and no call has dereferenced a nil formatter or a nil destination.
C19_AlwaysUsable ==
  /\ Constructed => opt.position # NilWriter /\ opt.formatter # NilFormatter
  /\ Dereferenced = {}

\* C20: every flushed record is a terminated line.  The bytes an accepted call
\* wrote to the destination are not empty and their last byte is a newline,
\* whatever the formatter, the template and the arguments.
C20_TerminatedLine ==
  \A t \in Threads :
    obs[t].wrote = 1 =>
      /\ obs[t].written # <<>>
      /\ obs[t].written[Len(obs[t].written)] = Lit("\n")
====
